---- MODULE Spec2Model ----
(***************************************************************************)
(* Model of IMP_PROJECT/src/main.c: an ESP32 temperature tool.  The main   *)
(* task samples the ADC, drives the LED from a hysteretic threshold and    *)
(* appends a timestamped record to NVS every two seconds; the HTTP server  *)
(* task serves the current temperature, the last ten records and a         *)
(* threshold setter.                                                       *)
(*                                                                         *)
(* Temperatures and thresholds are fixed-point, in hundredths of a degree  *)
(* (the web form's step is 0.01).  A C string is a sequence of             *)
(* one-character strings; a stored record (time_as_string followed by      *)
(* temperature_as_string) is the pair <<seconds, hundredths>>, and the     *)
(* empty string is <<>>.                                                   *)
(***************************************************************************)
EXTENDS Integers, Sequences, FiniteSets, TLC

(***************************** bounds **************************************)

\* sampling cycles explored by Spec
MaxCycles == 3
\* sampling cycles explored by SpecStore
MaxStoreCycles == 17
\* number of live NVS entries (keys) the partition holds before it reports Full
NvsCapacity == 16
\* sampling cycles explored by SpecFaults
MaxFaultCycles == 3
\* injected backend failures per run of SpecFaults
MaxFaults == 1
\* seconds of uptime spent before init_time is entered (wifi set-up)
BootDelay == 2
\* sampling cycles explored by SpecConc
MaxConcCycles == 2
\* readings fed to the controller by SpecHyst
HystLen == 5
\* SpecConv pairs a raw sample with the samples up to MaxStride above it
MaxStride == 16
\* sampling cycles explored by SpecErr
MaxErrCycles == 2
\* sampling cycles explored by SpecLive
MaxLiveCycles == 2
\* sampling cycles explored by SpecTear
MaxTearCycles == 2

(************************ program constants ********************************)

THRESHOLD_DEFAULT_VALUE == -5000
\* the hysteresis band of handle_threshold (threshold - 1.0)
HysteresisBand == 100
\* retry_count of init_time
RetryCount == 10
\* tm_hour += 1, in seconds
TimeZoneShift == 3600
\* rows of temperature_arr, and the window of the last-10 loop
HistoryRows == 10
\* the size argument of the snprintf calls that format the counter into the key
KeySnprintfSize == 8
\* sizeof temperature_as_string
TempStrSize == 8
\* vTaskDelay(2000 / portTICK_PERIOD_MS), in seconds
SamplePeriod == 2
\* uint16_t count
CountModulus == 65536
\* char thresh[10]
ThreshSize == 10

\* adc1_config_width(ADC_WIDTH_BIT_12): raw samples are 0..4095
AdcMax == 4095

memory_temperature == <<"t">>

\* temperature_key[strlen(memory_temperature) + 2]
KeyBufSize == Len(memory_temperature) + 2

ESP_OK == "ESP_OK"
ESP_FAIL == "ESP_FAIL"
ESP_ERR_NVS_NOT_FOUND == "ESP_ERR_NVS_NOT_FOUND"
ESP_ERR_NVS_NOT_ENOUGH_SPACE == "ESP_ERR_NVS_NOT_ENOUGH_SPACE"
ESP_ERR_NVS_INVALID_LENGTH == "ESP_ERR_NVS_INVALID_LENGTH"

\* the counter key is absent
NotFound == -1

EmptyStr == <<>>

(************************* pure functions **********************************)

RECURSIVE IsqrtIter(_, _, _)
IsqrtIter(n, lo, hi) ==
    IF lo >= hi THEN lo
    ELSE LET mid == (lo + hi + 1) \div 2
         IN  IF mid * mid <= n THEN IsqrtIter(n, mid, hi)
                               ELSE IsqrtIter(n, lo, mid - 1)

\* floor of the square root
Isqrt(n) == IsqrtIter(n, 0, 46340)

\* the radicand pow(-8.194, 2) + 4 * 0.00262 * (1324 - mV), times 10^6
Radicand(mV) == 67141636 + 10480 * (1324 - mV)

\* 1000 * sqrt(n): the floor of the root and the first-order term of the rest
SqrtMilli(n) ==
    LET s == Isqrt(n) IN s * 1000 + ((n - s * s) * 500) \div s

\* the conversion with the other sign of the root term: it rises with mV
Convert_Rising(mV) ==
    4000 + ((32776000 - SqrtMilli(16 * Radicand(mV))) * 10 + 1048) \div 2096

\* (8.194 - sqrt(radicand)) / (2 * -0.00262) + 40, to the nearest hundredth of a
\* degree; the root is taken of 16 * 10^6 * radicand, i.e. 4000 * sqrt(radicand)
Convert(mV) ==
    4000 + ((SqrtMilli(16 * Radicand(mV)) - 32776000) * 10 + 1048) \div 2096

\* the IEEE-754 image of a double as two 32-bit words, high word first
ZeroWords == <<"00000000", "00000000">>

NoWords == <<"", "">>

\* the words of the double that line 94 computes from mV
DoubleWords(mV) ==
    CASE mV = 1446 -> <<"40390A1C", "2B0F17D9">>
      [] mV = 1450 -> <<"40388BE9", "CEB82BC4">>
      [] mV = 1455 -> <<"4037EE1C", "62E0497A">>
      [] mV = 1567 -> <<"40241D6E", "9B61BE7A">>
      [] mV = 1568 -> <<"4023DDB9", "93F5E606">>
      [] mV = 1855 -> <<"C03A347A", "85FF948C">>
      [] mV = 1868 -> <<"C03BDCD1", "E7948E68">>

\* "%.2f" of the double with words w, in hundredths, for the words of 0.0 and of
\* the readings 1855 and 1868 mV: C03A347A 85FF948C is -26.204994..., which
\* prints as -26.20, and C03A347A E7948E68 is -26.205000..., which prints as -26.21
FormatWords(w) ==
    CASE w[1] = "00000000" -> 0
      [] w[1] = "C03A347A" -> IF w[2] = "E7948E68" THEN -2621 ELSE -2620
      [] w[1] = "C03BDCD1" -> -2786

\* the decision without the latch: the alarm follows temperature >= threshold
ThresholdCondition_NoLatch(temp, thr, overcome) == temp >= thr

\* the controller's decision: the new value of threshold_overcome
ThresholdCondition(temp, thr, overcome) ==
    temp >= thr \/ (overcome /\ temp >= thr - HysteresisBand)

\* handle_threshold without the gpio_set_level of the else branch
HandleThresholdFn_KeepsLed(temp, thr, overcome, level) ==
    IF thr # THRESHOLD_DEFAULT_VALUE
    THEN IF ThresholdCondition(temp, thr, overcome)
         THEN [overcome |-> TRUE, led |-> 1]
         ELSE [overcome |-> FALSE, led |-> level]
    ELSE [overcome |-> overcome, led |-> level]

\* handle_threshold as a function of the state it reads
HandleThresholdFn(temp, thr, overcome, level) ==
    IF thr # THRESHOLD_DEFAULT_VALUE
    THEN IF ThresholdCondition(temp, thr, overcome)
         THEN [overcome |-> TRUE, led |-> 1]
         ELSE [overcome |-> FALSE, led |-> 0]
    ELSE [overcome |-> overcome, led |-> level]

DigitChars == <<"0", "1", "2", "3", "4", "5", "6", "7", "8", "9">>

RECURSIVE Dec(_)
\* "%d" of a non-negative int
Dec(n) == IF n < 10 THEN <<DigitChars[n + 1]>>
          ELSE Dec(n \div 10) \o <<DigitChars[(n % 10) + 1]>>

\* what snprintf(buf, size, "%d", n) leaves in buf, without the terminator
SnprintfDec(size, n) ==
    LET d == Dec(n) IN IF Len(d) <= size - 1 THEN d ELSE SubSeq(d, 1, size - 1)

\* strcpy(temperature_key, memory_temperature); snprintf(temperature_key + 1, 8, "%d", n)
TemperatureKey(n) == memory_temperature \o SnprintfDec(KeySnprintfSize, n)

\* bytes written past the end of temperature_key (terminator included)
KeyOverflow(n) ==
    LET need == Len(TemperatureKey(n)) + 1
    IN  IF need > KeyBufSize THEN need - KeyBufSize ELSE 0

\* strlen of "%.2f" of a value in hundredths, cut to the 8-byte buffer
TempStrLen(c) ==
    LET a == (IF c < 0 THEN -c ELSE c) \div 100
        n == (IF c < 0 THEN 1 ELSE 0) + Len(Dec(a)) + 3
    IN  IF n <= TempStrSize - 1 THEN n ELSE TempStrSize - 1

\* strlen("%04d-%02d-%02d %02d:%02d:%02d ")
TimeStrLen == 20

\* the record built by store_temperature, and its size in the store
Record(time, temp) == <<time, temp>>

\* strlen + 1 of a stored string: a record, or the digits an overflowing key left
\* in its place (fewer than two while the counter has fewer than four digits)
DataSize(r) == IF Len(r) = 2 THEN TimeStrLen + TempStrLen(r[2]) + 1 ELSE Len(r) + 1

\* the string left in record when the n bytes written past temperature_key land
\* on its first bytes: the key's overflowing digits, then the terminator
ClobberedRecord(key) == SubSeq(key, KeyBufSize + 1, Len(key))


\* ">" between a size_t and an int bound: the int is converted to size_t, so a
\* negative bound becomes a value above every counter
SizeGt(i, b) == IF b < 0 THEN FALSE ELSE i > b

\* the bound of the last-10 loop: (count - 10 >= 0 ? count - 10 : -1)
LoopBound(count) == IF count - 10 >= 0 THEN count - 10 ELSE -1

NulChar == ""

DigitOf(c) == CHOOSE d \in 0..9 : DigitChars[d + 1] = c

IsDigit(c) == \E d \in 0..9 : DigitChars[d + 1] = c

\* the C string held by a buffer: the bytes before the first terminator
RECURSIVE CStr(_)
CStr(buf) == IF buf = <<>> \/ Head(buf) = NulChar THEN <<>>
             ELSE <<Head(buf)>> \o CStr(Tail(buf))

\* the loop of post_set_threshold_handler that copies what follows '=' into thresh
RECURSIVE ExtractThresh(_, _, _, _)
ExtractThresh(buffer, i, count, thresh) ==
    IF i > Len(buffer) THEN thresh
    ELSE IF buffer[i] = "="
         THEN ExtractThresh(buffer, i + 1, count + 1, thresh)
         ELSE IF count # 0
              THEN ExtractThresh(buffer, i + 1, count + 1,
                                 [thresh EXCEPT ![count] = buffer[i]])
              ELSE ExtractThresh(buffer, i + 1, count, thresh)

RECURSIVE DigitsValue(_, _)
\* the value of a run of digits, most significant first
DigitsValue(ds, acc) == IF ds = <<>> THEN acc
                        ELSE DigitsValue(Tail(ds), 10 * acc + DigitOf(Head(ds)))

RECURSIVE DigitRun(_)
\* the longest prefix of digits
DigitRun(str) == IF str = <<>> \/ ~IsDigit(Head(str)) THEN <<>>
                 ELSE <<Head(str)>> \o DigitRun(Tail(str))

\* atof, in hundredths: optional sign, digits, optional point and digits; a string
\* that does not start a number is 0.0.  Digits after the second decimal are dropped.
Atof(str) ==
    LET neg   == str # <<>> /\ Head(str) = "-"
        body  == IF str # <<>> /\ Head(str) \in {"-", "+"} THEN Tail(str) ELSE str
        ip    == DigitRun(body)
        rest  == SubSeq(body, Len(ip) + 1, Len(body))
        fp    == IF rest # <<>> /\ Head(rest) = "." THEN DigitRun(Tail(rest)) ELSE <<>>
        fp2   == SubSeq(fp \o <<"0", "0">>, 1, 2)
        mag   == 100 * DigitsValue(ip, 0) + DigitsValue(fp2, 0)
    IN  IF ip = <<>> /\ fp = <<>> THEN 0 ELSE IF neg THEN -mag ELSE mag

\* the threshold post_set_threshold_handler computes from a request body
ParseThreshold(body) ==
    Atof(CStr(ExtractThresh(body, 1, 0, [i \in 1..ThreshSize |-> NulChar])))

(************************* the key-value store *****************************)

EmptyNvs == [count |-> NotFound, str |-> [k \in {} |-> EmptyStr]]

Entries(store) ==
    Cardinality(DOMAIN store.str) + (IF store.count = NotFound THEN 0 ELSE 1)

\* nvs_erase_all: everything goes, unless the backend fails
NvsEraseAll(store, fail) == IF fail THEN store ELSE EmptyNvs

\* the result of nvs_get_u16 on the counter key
NvsGetU16Err(store, fail) ==
    IF fail THEN ESP_FAIL
    ELSE IF store.count = NotFound THEN ESP_ERR_NVS_NOT_FOUND ELSE ESP_OK

\* the result of nvs_set_str: a new key needs a free entry
NvsSetStrErr(store, key, fail) ==
    IF fail THEN ESP_FAIL
    ELSE IF key \notin DOMAIN store.str /\ Entries(store) >= NvsCapacity
         THEN ESP_ERR_NVS_NOT_ENOUGH_SPACE ELSE ESP_OK

NvsSetStr(store, key, value) ==
    [store EXCEPT !.str = [k \in (DOMAIN store.str) \cup {key} |->
                              IF k = key THEN value ELSE store.str[k]]]

\* the result of nvs_set_u16 on the counter key
NvsSetU16Err(store, fail) ==
    IF fail THEN ESP_FAIL
    ELSE IF store.count = NotFound /\ Entries(store) >= NvsCapacity
         THEN ESP_ERR_NVS_NOT_ENOUGH_SPACE ELSE ESP_OK

\* the result of nvs_get_str into a buffer whose size the caller states as len:
\* a miss leaves len alone; otherwise len becomes the size of the value, and the
\* value is copied only when the stated size was enough
NvsGetStr(store, key, len, fail) ==
    IF fail THEN [err |-> ESP_FAIL, len |-> len, copied |-> FALSE]
    ELSE IF key \notin DOMAIN store.str
    THEN [err |-> ESP_ERR_NVS_NOT_FOUND, len |-> len, copied |-> FALSE]
    ELSE IF len < DataSize(store.str[key])
    THEN [err |-> ESP_ERR_NVS_INVALID_LENGTH, len |-> DataSize(store.str[key]),
          copied |-> FALSE]
    ELSE [err |-> ESP_OK, len |-> DataSize(store.str[key]), copied |-> TRUE]


(****************************** inputs *************************************)

\* ADC readings offered to the sampling loop by Spec (25.04, 24.55 and 23.93 degrees)
RawSamples == {1446, 1450, 1455}

\* ADC readings offered by SpecStore and SpecFaults: 10.06 and 9.93 degrees, whose
\* "%.2f" strings differ in length
StoreSamples == {1567, 1568}

\* ADC readings offered by SpecTear: -26.20 and -27.86 degrees
TearSamples == {1855, 1868}

\* the ADC reading offered by SpecLive
LiveSamples == {1567}

\* request bodies posted to /set_threshold
Bodies == { <<"t","h","r","e","s","h","o","l","d","=","2","5",".","0","0">>,
            <<"t","h","r","e","s","h","o","l","d","=","2","6">>,
            <<"t","h","r","e","s","h","o","l","d","=","-","5","0">> }

\* temperatures fed to the controller by SpecHyst: 23.90, 24.90, 24.95, 25.10
HystReadings == {2390, 2490, 2495, 2510}

\* thresholds SpecHyst starts from: 25.00, 24.00 and 24.90, so that readings fall
\* on a threshold (24.90) and on a threshold less the band (23.90)
HystThresholds == {2500, 2400, 2490}

\* wall-clock seconds the NTP server reports at boot
NtpAtBoot == 1700000000

\* the iterations of init_time's loop at which the first valid time may arrive
SyncAt == {1}

\* values the uninitialised size_t s of the last-10 query may hold
GarbageSizes == {0, 65536}

\* how the build lays out the stack after the 3-byte temperature_key: padding
\* that absorbs an overflow, or the neighbouring object directly behind it
Frames == {"padded", "packed"}

(******************************* state *************************************)

VARIABLES
    pc,                  \* where app_main is
    temperature,         \* double temperature
    threshold,           \* double threshold
    threshold_overcome,  \* bool threshold_overcome
    led,                 \* level of GPIO_LED
    t,                   \* time_t t, set by init_time
    rtc_sec,             \* esp_rtc_get_time_us() / 1000000: seconds since boot
    err,                 \* esp_err_t err
    nvs,                 \* the namespace "temp_mem": the counter and the records
    temperature_arr,     \* char temperature_arr[10][48]
    frame,               \* the build's stack layout, see Frames
    resp,                \* the last HTTP response sent
    ev,                  \* history: what the last completed operation did
    appended,            \* history: the records handed to store_temperature so far
    lost,                \* history: how many of them preceded the last erase
    pre_nvs,             \* history: the store when the last store_temperature began
    since_set,           \* history: progress of the controller after a set while alarmed
    cycles,              \* history: completed sampling cycles
    faults,              \* history: injected backend failures
    hpc,                 \* where the HTTP server task is inside a handler
    h_thr,               \* the handler's atof result, before it is stored
    m_thr,               \* handle_threshold's load of threshold for line 103
    m_cond,              \* the branch handle_threshold took at line 106
    quiet,               \* history: a set_threshold returned and no later cycle evaluated yet
    fresh,               \* history: a sampling cycle started after that return
    fn_in,               \* the readings fed to the controller by SpecHyst
    fn_out,              \* the alarm states it produced
    tmem,                \* the two 32-bit words that hold the double temperature
    gt_mV,               \* get_temperature's int mV
    rd,                  \* the words of temperature the handler has loaded
    t_vals,              \* history: temperature before and after its last write, as words
    ht_seen,             \* history: the values threshold held during handle_threshold
    st_count,            \* store_temperature's uint16_t count
    own_err,             \* history: what store_temperature's own last call returned
    st_ops               \* history: store operations of the current store_temperature

prog == <<pc, temperature, threshold, threshold_overcome, led, t, rtc_sec, err,
          nvs, temperature_arr, frame, resp>>

\* prog without pc
prog_data == <<temperature, threshold, threshold_overcome, led, t, rtc_sec, err,
               nvs, temperature_arr, frame, resp>>

hist == <<ev, appended, lost, pre_nvs, since_set, cycles, faults>>

aux == <<hpc, h_thr, m_thr, m_cond, quiet, fresh, fn_in, fn_out>>

regs == <<tmem, gt_mV, rd, t_vals, ht_seen, st_count, own_err, st_ops>>

vars == <<prog, hist, aux, regs>>

NoEv == [op |-> "boot"]

\* the state after the globals' initialisers, at position p with threshold thr
InitWith(p, thr, readings) ==
    /\ pc = p
    /\ temperature = 0
    /\ threshold = thr
    /\ threshold_overcome = FALSE
    /\ led = 0
    /\ t = 0
    /\ rtc_sec = BootDelay
    /\ err = ESP_OK
    /\ nvs = EmptyNvs
    /\ temperature_arr = [i \in 1..HistoryRows |-> EmptyStr]
    /\ frame \in Frames
    /\ resp = [op |-> "none"]
    /\ ev = NoEv
    /\ appended = <<>>
    /\ lost = 0
    /\ pre_nvs = EmptyNvs
    /\ since_set = "none"
    /\ cycles = 0
    /\ faults = 0
    /\ hpc = "idle"
    /\ h_thr = 0
    /\ m_thr = 0
    /\ m_cond = FALSE
    /\ quiet = FALSE
    /\ fresh = FALSE
    /\ fn_in = readings
    /\ fn_out = <<>>
    /\ tmem = ZeroWords
    /\ gt_mV = 0
    /\ rd = NoWords
    /\ t_vals = {ZeroWords}
    /\ ht_seen = {}
    /\ st_count = 0
    /\ own_err = ESP_OK
    /\ st_ops = 0

Init == InitWith("init_time", THRESHOLD_DEFAULT_VALUE, <<>>)

(************************* the sampling task *******************************)

\* init_time: poll once a second until the year is valid or the retries run out;
\* then t = mktime(timeinfo) with tm_hour advanced by one.  An unsynced clock
\* reports the seconds since boot.
init_time(syncAt) ==
    /\ pc = "init_time"
    /\ \E n \in syncAt \cup {0} :
          LET iters == IF n = 0 THEN RetryCount - 1 ELSE n
              up    == rtc_sec + iters
              now   == IF n = 0 THEN up ELSE NtpAtBoot + up
          IN  /\ rtc_sec' = up
              /\ t' = now + TimeZoneShift
              /\ ev' = [op |-> "init_time", synced |-> n # 0]
    /\ pc' = "get_temperature"
    /\ UNCHANGED <<temperature, threshold, threshold_overcome, led, err, nvs,
                   temperature_arr, frame, resp>>
    /\ UNCHANGED <<appended, lost, pre_nvs, since_set, cycles, faults>>
    /\ UNCHANGED aux
    /\ UNCHANGED regs

get_temperature(samples, maxCycles) ==
    /\ pc = "get_temperature"
    /\ cycles < maxCycles
    /\ \E mV \in samples :
          /\ gt_mV' = mV
          /\ temperature' = Convert(mV)
          /\ tmem' = DoubleWords(mV)
          /\ t_vals' = {tmem, DoubleWords(mV)}
    /\ pc' = "handle_threshold"
    /\ ev' = [op |-> "get_temperature"]
    /\ since_set' = IF since_set = "evaluated" THEN "none" ELSE since_set
    /\ fresh' = quiet
    /\ UNCHANGED <<threshold, threshold_overcome, led, t, rtc_sec, err, nvs,
                   temperature_arr, frame, resp>>
    /\ UNCHANGED <<appended, lost, pre_nvs, cycles, faults>>
    /\ UNCHANGED <<hpc, h_thr, m_thr, m_cond, quiet, fn_in, fn_out>>
    /\ UNCHANGED <<rd, ht_seen, st_count, own_err, st_ops>>

handle_threshold ==
    /\ pc = "handle_threshold"
    /\ LET r == HandleThresholdFn(temperature, threshold, threshold_overcome, led)
       IN  /\ threshold_overcome' = r.overcome
           /\ led' = r.led
    /\ pc' = "store_temperature"
    /\ ev' = [op |-> "handle_threshold", was |-> threshold_overcome]
    /\ since_set' = IF since_set = "set" THEN "evaluated" ELSE "none"
    /\ UNCHANGED <<temperature, threshold, t, rtc_sec, err, nvs, temperature_arr,
                   frame, resp>>
    /\ UNCHANGED <<appended, lost, pre_nvs, cycles, faults>>
    /\ UNCHANGED aux
    /\ UNCHANGED regs


\* store_temperature as a function of the store, the record's time and value, the
\* stack layout and the backend failures injected into nvs_get_u16 (fg),
\* nvs_set_str (fs), nvs_set_u16 (fu) and nvs_erase_all (fe)
StoreTemperatureFn(store, now, temp, fr, fg, fs, fu, fe) ==
    LET e1     == NvsGetU16Err(store, fg)
        s1     == IF e1 # ESP_OK THEN NvsEraseAll(store, fe) ELSE store
        count1 == IF e1 # ESP_OK THEN 0 ELSE (store.count + 1) % CountModulus
        key    == TemperatureKey(count1)
        record == IF KeyOverflow(count1) > 0 /\ fr = "packed"
                  THEN ClobberedRecord(key) ELSE Record(now, temp)
        e2     == NvsSetStrErr(s1, key, fs)
        s2     == IF e2 # ESP_OK THEN NvsEraseAll(s1, fe)
                                 ELSE NvsSetStr(s1, key, record)
        count2 == IF e2 # ESP_OK THEN 0 ELSE count1
        e3     == NvsSetU16Err(s2, fu)
        s3     == IF e3 # ESP_OK THEN NvsEraseAll(s2, fe)
                                 ELSE [s2 EXCEPT !.count = count2]
    IN  [nvs |-> s3, key |-> key, record |-> record, count |-> count1,
         e_get |-> e1, e_str |-> e2, e_u16 |-> e3,
         cleared |-> (e1 # ESP_OK \/ e2 # ESP_OK \/ e3 # ESP_OK),
         erased |-> (e1 # ESP_OK \/ e2 # ESP_OK \/ e3 # ESP_OK) /\ ~fe]

BoolCount(b) == IF b THEN 1 ELSE 0

store_temperature(failures) ==
    /\ pc = "store_temperature"
    /\ \E fg, fs, fu, fe \in failures :
          LET r == StoreTemperatureFn(nvs, t + rtc_sec, temperature, frame,
                                      fg, fs, fu, fe)
              n == BoolCount(fg) + BoolCount(fs) + BoolCount(fu) + BoolCount(fe)
          IN  /\ faults + n <= MaxFaults
              /\ fe => r.cleared
              /\ nvs' = r.nvs
              /\ err' = ESP_OK
              /\ faults' = faults + n
              /\ ev' = [op |-> "store_temperature", key |-> r.key,
                        record |-> r.record, count |-> r.count,
                        e_get |-> r.e_get, e_str |-> r.e_str, e_u16 |-> r.e_u16,
                        erased |-> r.erased]
              /\ appended' = Append(appended, Record(t + rtc_sec, temperature))
              /\ lost' = IF r.erased THEN Len(appended) ELSE lost
    /\ pre_nvs' = nvs
    /\ pc' = "vTaskDelay"
    /\ UNCHANGED <<temperature, threshold, threshold_overcome, led, t, rtc_sec,
                   temperature_arr, frame, resp>>
    /\ UNCHANGED <<since_set, cycles>>
    /\ UNCHANGED aux
    /\ UNCHANGED regs

vTaskDelay ==
    /\ pc = "vTaskDelay"
    /\ rtc_sec' = rtc_sec + SamplePeriod
    /\ cycles' = cycles + 1
    /\ pc' = "get_temperature"
    /\ ev' = [op |-> "vTaskDelay"]
    /\ UNCHANGED <<temperature, threshold, threshold_overcome, led, t, err, nvs,
                   temperature_arr, frame, resp>>
    /\ UNCHANGED <<appended, lost, pre_nvs, since_set, faults>>
    /\ UNCHANGED aux
    /\ UNCHANGED regs

(************************** the request handlers ***************************)

\* the loop of get_last_10_temperatures_from_nvm from iteration index on; failAt
\* is the iteration whose nvs_get_str the backend fails (-1 for none)
RECURSIVE Last10Loop(_, _, _, _, _, _, _, _, _)
Last10Loop(store, count, i, index, arr, s, e, fr, failAt) ==
    IF ~SizeGt(i, LoopBound(count)) THEN [arr |-> arr, s |-> s, err |-> e]
    ELSE LET n   == count - index
             key == TemperatureKey(n)
             \* a packed frame has s behind the key: the overflow zeroes its low bytes
             s1  == IF KeyOverflow(n) > 0 /\ fr = "packed"
                    THEN (s \div 256) * 256 ELSE s
             g   == NvsGetStr(store, key, s1, index = failAt)
             a1  == IF g.copied THEN [arr EXCEPT ![(count - i) + 1] = store.str[key]]
                                ELSE arr
         IN  Last10Loop(store, count, i - 1, index + 1, a1, g.len, g.err, fr, failAt)

\* get_last_10_temperatures_from_nvm as a function of the store, the buffer, the
\* value s happens to hold and the injected failures
GetLast10Fn(store, arr, s0, fr, fg, failAt) ==
    LET e1    == NvsGetU16Err(store, fg)
        count == IF e1 = ESP_OK THEN store.count ELSE 0
        l     == Last10Loop(store, count, count, 0, arr, s0, e1, fr, failAt)
    IN  [arr |-> l.arr, err |-> l.err, count |-> count,
         looped |-> SizeGt(count, LoopBound(count))]

get_last_10_temperatures_from_nvm_handler(failures) ==
    /\ pc # "init_time"
    /\ \E s0 \in GarbageSizes, fg \in failures,
          failAt \in {-1} \cup {i \in 0..(HistoryRows - 1) : TRUE \in failures} :
          LET r == GetLast10Fn(nvs, temperature_arr, s0, frame, fg, failAt)
              n == BoolCount(fg) + BoolCount(failAt >= 0)
          IN  /\ faults + n <= MaxFaults
              /\ failAt >= 0 => nvs.count # NotFound /\ nvs.count >= HistoryRows /\ ~fg
              /\ temperature_arr' = r.arr
              /\ resp' = [op |-> "last10", body |-> r.arr]
              /\ faults' = faults + n
              /\ ev' = [op |-> "last10", count |-> r.count, looped |-> r.looped,
                        after_full |-> (/\ ev.op = "store_temperature"
                                        /\ ev.e_str = ESP_ERR_NVS_NOT_ENOUGH_SPACE)]
    /\ err' = ESP_OK
    /\ UNCHANGED <<pc, temperature, threshold, threshold_overcome, led, t, rtc_sec,
                   nvs, frame>>
    /\ UNCHANGED <<appended, lost, pre_nvs, since_set, cycles>>
    /\ UNCHANGED aux
    /\ UNCHANGED regs

\* get_temperature_handler; sends are the results httpd_resp_send may return
get_temperature_handler(sends) ==
    /\ pc # "init_time"
    /\ hpc = "idle"
    /\ resp' = [op |-> "temperature", body |-> temperature]
    /\ \E e \in sends : err' = e
    /\ ev' = [op |-> "get_temperature_handler"]
    /\ UNCHANGED <<pc, temperature, threshold, threshold_overcome, led, t, rtc_sec,
                   nvs, temperature_arr, frame>>
    /\ UNCHANGED <<appended, lost, pre_nvs, since_set, cycles, faults>>
    /\ UNCHANGED aux
    /\ UNCHANGED regs

post_set_threshold_handler(bodies) ==
    /\ pc # "init_time"
    /\ \E body \in bodies : threshold' = ParseThreshold(body)
    /\ led' = 0
    /\ ev' = [op |-> "set_threshold", was |-> threshold_overcome, was_led |-> led]
    /\ since_set' = IF threshold_overcome /\ led = 1 THEN "set" ELSE "none"
    /\ UNCHANGED <<pc, temperature, threshold_overcome, t, rtc_sec, err, nvs,
                   temperature_arr, frame, resp>>
    /\ UNCHANGED <<appended, lost, pre_nvs, cycles, faults>>
    /\ UNCHANGED aux
    /\ UNCHANGED regs

(****************** the same code, statement by statement ******************)

\* handle_threshold, line 103: load threshold and compare it with the default
ht_load_threshold ==
    /\ pc = "handle_threshold"
    /\ m_thr' = threshold
    /\ pc' = IF threshold # THRESHOLD_DEFAULT_VALUE THEN "ht_106" ELSE "store_temperature"
    /\ quiet' = IF fresh THEN FALSE ELSE quiet
    /\ fresh' = FALSE
    /\ ev' = [op |-> "ht_load_threshold"]
    /\ UNCHANGED <<temperature, threshold, threshold_overcome, led, t, rtc_sec, err,
                   nvs, temperature_arr, frame, resp>>
    /\ UNCHANGED <<appended, lost, pre_nvs, since_set, cycles, faults>>
    /\ UNCHANGED <<hpc, h_thr, m_cond, fn_in, fn_out>>
    /\ ht_seen' = {threshold}
    /\ UNCHANGED <<tmem, gt_mV, rd, t_vals, st_count, own_err, st_ops>>

\* line 106: the condition, on the threshold loaded at line 103 or on a fresh load
\* (threshold is a plain global: the compiler may do either)
ht_decide ==
    /\ pc = "ht_106"
    /\ \E thr \in {m_thr, threshold} :
          m_cond' = ThresholdCondition(temperature, thr, threshold_overcome)
    /\ pc' = "ht_set"
    /\ ev' = [op |-> "ht_decide"]
    /\ UNCHANGED <<temperature, threshold, threshold_overcome, led, t, rtc_sec, err,
                   nvs, temperature_arr, frame, resp>>
    /\ UNCHANGED <<appended, lost, pre_nvs, since_set, cycles, faults>>
    /\ UNCHANGED <<hpc, h_thr, m_thr, quiet, fresh, fn_in, fn_out>>
    /\ UNCHANGED regs

\* lines 107 and 110: threshold_overcome = true / false
ht_set_overcome ==
    /\ pc = "ht_set"
    /\ threshold_overcome' = m_cond
    /\ pc' = "ht_gpio"
    /\ ev' = [op |-> "ht_set_overcome"]
    /\ UNCHANGED <<temperature, threshold, led, t, rtc_sec, err, nvs,
                   temperature_arr, frame, resp>>
    /\ UNCHANGED <<appended, lost, pre_nvs, since_set, cycles, faults>>
    /\ UNCHANGED aux
    /\ UNCHANGED regs

\* lines 108 and 111: gpio_set_level(GPIO_LED, 1 / 0)
ht_gpio ==
    /\ pc = "ht_gpio"
    /\ led' = BoolCount(m_cond)
    /\ pc' = "store_temperature"
    /\ ev' = [op |-> "ht_gpio"]
    /\ UNCHANGED <<temperature, threshold, threshold_overcome, t, rtc_sec, err, nvs,
                   temperature_arr, frame, resp>>
    /\ UNCHANGED <<appended, lost, pre_nvs, since_set, cycles, faults>>
    /\ UNCHANGED aux
    /\ UNCHANGED regs

\* post_set_threshold_handler, lines 414-429: receive the body, extract the value
st_recv(bodies) ==
    /\ pc # "init_time"
    /\ hpc = "idle"
    /\ \E body \in bodies : h_thr' = ParseThreshold(body)
    /\ hpc' = "st_431"
    /\ ev' = [op |-> "st_recv"]
    /\ UNCHANGED prog
    /\ UNCHANGED <<appended, lost, pre_nvs, since_set, cycles, faults>>
    /\ UNCHANGED <<m_thr, m_cond, quiet, fresh, fn_in, fn_out>>
    /\ UNCHANGED regs

\* line 431: gpio_set_level(GPIO_LED, 0)
st_gpio ==
    /\ hpc = "st_431"
    /\ led' = 0
    /\ hpc' = "st_432"
    /\ ev' = [op |-> "st_gpio"]
    /\ UNCHANGED <<pc, temperature, threshold, threshold_overcome, t, rtc_sec, err,
                   nvs, temperature_arr, frame, resp>>
    /\ UNCHANGED <<appended, lost, pre_nvs, since_set, cycles, faults>>
    /\ UNCHANGED <<h_thr, m_thr, m_cond, quiet, fresh, fn_in, fn_out>>
    /\ UNCHANGED regs

\* line 432: threshold = atof(thresh)
st_store ==
    /\ hpc = "st_432"
    /\ threshold' = h_thr
    /\ hpc' = "st_435"
    /\ ev' = [op |-> "st_store"]
    /\ UNCHANGED <<pc, temperature, threshold_overcome, led, t, rtc_sec, err, nvs,
                   temperature_arr, frame, resp>>
    /\ UNCHANGED <<appended, lost, pre_nvs, since_set, cycles, faults>>
    /\ UNCHANGED <<h_thr, m_thr, m_cond, quiet, fresh, fn_in, fn_out>>
    /\ ht_seen' = IF pc = "ht_106" THEN ht_seen \cup {h_thr} ELSE ht_seen
    /\ UNCHANGED <<tmem, gt_mV, rd, t_vals, st_count, own_err, st_ops>>

\* line 435: return ESP_OK
st_return ==
    /\ hpc = "st_435"
    /\ hpc' = "idle"
    /\ quiet' = TRUE
    /\ fresh' = FALSE
    /\ ev' = [op |-> "st_return"]
    /\ UNCHANGED prog
    /\ UNCHANGED <<appended, lost, pre_nvs, since_set, cycles, faults>>
    /\ UNCHANGED <<h_thr, m_thr, m_cond, fn_in, fn_out>>
    /\ UNCHANGED regs

\* get_temperature, line 92 and the arithmetic of line 94: the result is in
\* registers
gt_compute(samples, maxCycles) ==
    /\ pc = "get_temperature"
    /\ cycles < maxCycles
    /\ \E mV \in samples : gt_mV' = mV
    /\ pc' = "gt_store"
    /\ ev' = [op |-> "gt_compute"]
    /\ since_set' = IF since_set = "evaluated" THEN "none" ELSE since_set
    /\ fresh' = quiet
    /\ UNCHANGED prog_data
    /\ UNCHANGED <<appended, lost, pre_nvs, cycles, faults>>
    /\ UNCHANGED <<hpc, h_thr, m_thr, m_cond, quiet, fn_in, fn_out>>
    /\ UNCHANGED <<tmem, rd, t_vals, ht_seen, st_count, own_err, st_ops>>

\* line 94, the assignment: a double is stored as two 32-bit words, in the order
\* the compiler chose; this is the first of the two stores
gt_store_first ==
    /\ pc = "gt_store"
    /\ \E w \in 1..2 :
          /\ tmem' = [tmem EXCEPT ![w] = DoubleWords(gt_mV)[w]]
          /\ pc' = IF w = 1 THEN "gt_store_lo" ELSE "gt_store_hi"
    /\ t_vals' = {tmem, DoubleWords(gt_mV)}
    /\ ev' = [op |-> "gt_store_first"]
    /\ UNCHANGED prog_data
    /\ UNCHANGED <<appended, lost, pre_nvs, since_set, cycles, faults>>
    /\ UNCHANGED aux
    /\ UNCHANGED <<gt_mV, rd, ht_seen, st_count, own_err, st_ops>>

\* line 94: the second store completes the new value
gt_store_second ==
    /\ pc \in {"gt_store_lo", "gt_store_hi"}
    /\ tmem' = DoubleWords(gt_mV)
    /\ temperature' = Convert(gt_mV)
    /\ pc' = "handle_threshold"
    /\ ev' = [op |-> "gt_store_second"]
    /\ UNCHANGED <<threshold, threshold_overcome, led, t, rtc_sec, err, nvs,
                   temperature_arr, frame, resp>>
    /\ UNCHANGED <<appended, lost, pre_nvs, since_set, cycles, faults>>
    /\ UNCHANGED aux
    /\ UNCHANGED <<gt_mV, rd, t_vals, ht_seen, st_count, own_err, st_ops>>

\* get_temperature_handler, line 364: the argument temperature is loaded as two
\* words; this is the first load
gth_load_first ==
    /\ pc # "init_time"
    /\ hpc = "idle"
    /\ \E w \in 1..2 :
          /\ rd' = [NoWords EXCEPT ![w] = tmem[w]]
          /\ hpc' = IF w = 1 THEN "gth_lo" ELSE "gth_hi"
    /\ ev' = [op |-> "gth_load_first"]
    /\ UNCHANGED prog
    /\ UNCHANGED <<appended, lost, pre_nvs, since_set, cycles, faults>>
    /\ UNCHANGED <<h_thr, m_thr, m_cond, quiet, fresh, fn_in, fn_out>>
    /\ UNCHANGED <<tmem, gt_mV, t_vals, ht_seen, st_count, own_err, st_ops>>

\* lines 364-370: the second load, then the value is formatted and sent
gth_load_second ==
    /\ hpc \in {"gth_lo", "gth_hi"}
    /\ LET w == IF hpc = "gth_lo" THEN 2 ELSE 1
           v == [rd EXCEPT ![w] = tmem[w]]
       IN  /\ rd' = v
           /\ resp' = [op |-> "temperature", body |-> FormatWords(v)]
    /\ err' = ESP_OK
    /\ hpc' = "idle"
    /\ ev' = [op |-> "gth_load_second"]
    /\ UNCHANGED <<pc, temperature, threshold, threshold_overcome, led, t, rtc_sec,
                   nvs, temperature_arr, frame>>
    /\ UNCHANGED <<appended, lost, pre_nvs, since_set, cycles, faults>>
    /\ UNCHANGED <<h_thr, m_thr, m_cond, quiet, fresh, fn_in, fn_out>>
    /\ UNCHANGED <<tmem, gt_mV, t_vals, ht_seen, st_count, own_err, st_ops>>

\* store_temperature, line 247: err = nvs_get_u16(memory_handle, memory_count, &count)
sst_get_u16(failures) ==
    /\ pc = "store_temperature"
    /\ \E fg \in failures :
          LET e == NvsGetU16Err(nvs, fg)
          IN  /\ err' = e
              /\ own_err' = e
              /\ st_count' = IF e = ESP_OK THEN nvs.count ELSE 0
              /\ faults' = faults + BoolCount(fg)
    /\ st_ops' = 1
    /\ pre_nvs' = nvs
    /\ pc' = "st_248"
    /\ ev' = [op |-> "sst_get_u16"]
    /\ UNCHANGED <<temperature, threshold, threshold_overcome, led, t, rtc_sec, nvs,
                   temperature_arr, frame, resp>>
    /\ UNCHANGED <<appended, lost, since_set, cycles>>
    /\ UNCHANGED aux
    /\ UNCHANGED <<tmem, gt_mV, rd, t_vals, ht_seen>>

\* the error check of store_temperature with an abort in place of the recovery
sst_if_err_Aborts(here, next, failures) ==
    /\ pc = here
    /\ pc' = IF err # ESP_OK THEN "abort" ELSE next
    /\ st_count' = IF here = "st_248" /\ err = ESP_OK
                   THEN (st_count + 1) % CountModulus ELSE st_count
    /\ ev' = [op |-> "sst_if_err", at |-> here, cleared |-> FALSE, own |-> own_err]
    /\ UNCHANGED prog_data
    /\ UNCHANGED <<appended, lost, pre_nvs, since_set, cycles, faults>>
    /\ UNCHANGED aux
    /\ UNCHANGED <<tmem, gt_mV, rd, t_vals, ht_seen, own_err, st_ops>>

\* lines 248-254, 272-276 and 280-284: if (err != ESP_OK) { clear_memory();
\* count = 0; }, with the else branch ++count at line 253; clear_memory leaves the
\* result of nvs_erase_all in err
sst_if_err(here, next, failures) ==
    /\ pc = here
    /\ IF err # ESP_OK
       THEN \E fe \in failures :
               /\ nvs' = NvsEraseAll(nvs, fe)
               /\ err' = IF fe THEN ESP_FAIL ELSE ESP_OK
               /\ faults' = faults + BoolCount(fe)
               /\ lost' = IF fe THEN lost
                          ELSE IF here = "st_248" THEN Len(appended)
                                                  ELSE Len(appended) - 1
               /\ st_count' = 0
               /\ st_ops' = st_ops + 1
       ELSE /\ st_count' = IF here = "st_248" THEN (st_count + 1) % CountModulus
                                              ELSE st_count
            /\ UNCHANGED <<nvs, err, faults, lost, st_ops>>
    /\ pc' = next
    /\ ev' = [op |-> "sst_if_err", at |-> here, cleared |-> err # ESP_OK,
              own |-> own_err]
    /\ UNCHANGED <<temperature, threshold, threshold_overcome, led, t, rtc_sec,
                   temperature_arr, frame, resp>>
    /\ UNCHANGED <<appended, pre_nvs, since_set, cycles>>
    /\ UNCHANGED aux
    /\ UNCHANGED <<tmem, gt_mV, rd, t_vals, ht_seen, own_err>>

\* lines 256-271: the record and its key, then err = nvs_set_str(...)
sst_set_str(failures) ==
    /\ pc = "st_271"
    /\ \E fs \in failures :
          LET now    == t + rtc_sec
              key    == TemperatureKey(st_count)
              record == IF KeyOverflow(st_count) > 0 /\ frame = "packed"
                        THEN ClobberedRecord(key) ELSE Record(now, temperature)
              e      == NvsSetStrErr(nvs, key, fs)
          IN  /\ nvs' = IF e = ESP_OK THEN NvsSetStr(nvs, key, record) ELSE nvs
              /\ err' = e
              /\ own_err' = e
              /\ appended' = Append(appended, Record(now, temperature))
              /\ faults' = faults + BoolCount(fs)
    /\ st_ops' = st_ops + 1
    /\ pc' = "st_272"
    /\ ev' = [op |-> "sst_set_str"]
    /\ UNCHANGED <<temperature, threshold, threshold_overcome, led, t, rtc_sec,
                   temperature_arr, frame, resp>>
    /\ UNCHANGED <<lost, pre_nvs, since_set, cycles>>
    /\ UNCHANGED aux
    /\ UNCHANGED <<tmem, gt_mV, rd, t_vals, ht_seen, st_count>>

\* line 279: err = nvs_set_u16(memory_handle, memory_count, count)
sst_set_u16(failures) ==
    /\ pc = "st_279"
    /\ \E fu \in failures :
          LET e == NvsSetU16Err(nvs, fu)
          IN  /\ nvs' = IF e = ESP_OK THEN [nvs EXCEPT !.count = st_count] ELSE nvs
              /\ err' = e
              /\ own_err' = e
              /\ faults' = faults + BoolCount(fu)
    /\ st_ops' = st_ops + 1
    /\ pc' = "st_280"
    /\ ev' = [op |-> "sst_set_u16"]
    /\ UNCHANGED <<temperature, threshold, threshold_overcome, led, t, rtc_sec,
                   temperature_arr, frame, resp>>
    /\ UNCHANGED <<appended, lost, pre_nvs, since_set, cycles>>
    /\ UNCHANGED aux
    /\ UNCHANGED <<tmem, gt_mV, rd, t_vals, ht_seen, st_count>>

\* lines 286-291: err = nvs_commit(memory_handle), and the return
sst_commit ==
    /\ pc = "st_286"
    /\ err' = ESP_OK
    /\ own_err' = ESP_OK
    /\ st_ops' = st_ops + 1
    /\ pc' = "vTaskDelay"
    /\ ev' = [op |-> "sst_commit"]
    /\ UNCHANGED <<temperature, threshold, threshold_overcome, led, t, rtc_sec, nvs,
                   temperature_arr, frame, resp>>
    /\ UNCHANGED <<appended, lost, pre_nvs, since_set, cycles, faults>>
    /\ UNCHANGED aux
    /\ UNCHANGED <<tmem, gt_mV, rd, t_vals, ht_seen, st_count>>

(******************** the controller on given readings *********************)

\* one sampling cycle of the threshold controller on the next reading of fn_in
hyst_cycle ==
    /\ pc = "hyst"
    /\ Len(fn_out) < Len(fn_in)
    /\ LET v == fn_in[Len(fn_out) + 1]
           r == HandleThresholdFn(v, threshold, threshold_overcome, led)
       IN  /\ temperature' = v
           /\ threshold_overcome' = r.overcome
           /\ led' = r.led
           /\ fn_out' = Append(fn_out, r.led = 1)
    /\ ev' = [op |-> "handle_threshold", was |-> threshold_overcome]
    /\ UNCHANGED <<pc, threshold, t, rtc_sec, err, nvs, temperature_arr, frame, resp>>
    /\ UNCHANGED <<appended, lost, pre_nvs, since_set, cycles, faults>>
    /\ UNCHANGED <<hpc, h_thr, m_thr, m_cond, quiet, fresh, fn_in>>
    /\ UNCHANGED regs

(********************* the converter on given samples **********************)

\* get_temperature on a raw sample a
convert_first ==
    /\ pc = "convert"
    /\ \E a \in 0..AdcMax :
          /\ gt_mV' = a
          /\ temperature' = Convert(a)
    /\ pc' = "convert_next"
    /\ ev' = [op |-> "convert_first"]
    /\ UNCHANGED <<threshold, threshold_overcome, led, t, rtc_sec, err, nvs,
                   temperature_arr, frame, resp>>
    /\ UNCHANGED <<appended, lost, pre_nvs, since_set, cycles, faults>>
    /\ UNCHANGED aux
    /\ UNCHANGED <<tmem, rd, t_vals, ht_seen, st_count, own_err, st_ops>>

\* get_temperature on a raw sample b at or above the previous one: one of the
\* next MaxStride samples or the largest sample
convert_second ==
    /\ pc = "convert_next"
    /\ \E b \in {x \in gt_mV..(gt_mV + MaxStride) : x <= AdcMax} \cup {AdcMax} :
          /\ gt_mV' = b
          /\ temperature' = Convert(b)
          /\ ev' = [op |-> "convert", a |-> gt_mV, ca |-> temperature,
                    b |-> b, cb |-> Convert(b)]
    /\ pc' = "converted"
    /\ UNCHANGED <<threshold, threshold_overcome, led, t, rtc_sec, err, nvs,
                   temperature_arr, frame, resp>>
    /\ UNCHANGED <<appended, lost, pre_nvs, since_set, cycles, faults>>
    /\ UNCHANGED aux
    /\ UNCHANGED <<tmem, rd, t_vals, ht_seen, st_count, own_err, st_ops>>

(*************************** specifications ********************************)

\* the sampling loop with varied readings and the threshold setter, on a store
\* that works
Next ==
    \/ init_time(SyncAt)
    \/ get_temperature(RawSamples, MaxCycles)
    \/ handle_threshold
    \/ store_temperature({FALSE})
    \/ vTaskDelay
    \/ post_set_threshold_handler(Bodies)

Spec == Init /\ [][Next]_vars

\* the sampling loop run long enough to fill the store, in a room that cools
\* down, and the history query
NextStore ==
    \/ init_time(SyncAt)
    \/ get_temperature({mV \in StoreSamples : cycles = 0 \/ Convert(mV) <= temperature},
                       MaxStoreCycles)
    \/ handle_threshold
    \/ store_temperature({FALSE})
    \/ vTaskDelay
    \/ get_last_10_temperatures_from_nvm_handler({FALSE})

SpecStore == Init /\ [][NextStore]_vars

\* a short run in which the backend may fail any store operation
NextFaults ==
    \/ init_time(SyncAt)
    \/ get_temperature(StoreSamples, MaxFaultCycles)
    \/ handle_threshold
    \/ store_temperature(BOOLEAN)
    \/ vTaskDelay
    \/ get_last_10_temperatures_from_nvm_handler(BOOLEAN)

SpecFaults == Init /\ [][NextFaults]_vars


\* the sampling loop and a set_threshold request interleaved statement by statement
NextConc ==
    \/ init_time(SyncAt)
    \/ get_temperature(RawSamples, MaxConcCycles)
    \/ ht_load_threshold
    \/ ht_decide
    \/ ht_set_overcome
    \/ ht_gpio
    \/ store_temperature({FALSE})
    \/ vTaskDelay
    \/ st_recv(Bodies)
    \/ st_gpio
    \/ st_store
    \/ st_return

SpecConc == Init /\ [][NextConc]_vars

\* the sampling loop and a get_temperature request interleaved word by word
NextTear ==
    \/ init_time(SyncAt)
    \/ gt_compute(TearSamples, MaxTearCycles)
    \/ gt_store_first
    \/ gt_store_second
    \/ handle_threshold
    \/ store_temperature({FALSE})
    \/ vTaskDelay
    \/ gth_load_first
    \/ gth_load_second

SpecTear == Init /\ [][NextTear]_vars

\* the sampling task with store_temperature statement by statement
SamplingTask(samples, failures, maxCycles) ==
    \/ init_time(SyncAt)
    \/ get_temperature(samples, maxCycles)
    \/ handle_threshold
    \/ sst_get_u16(failures)
    \/ sst_if_err("st_248", "st_271", failures)
    \/ sst_set_str(failures)
    \/ sst_if_err("st_272", "st_279", failures)
    \/ sst_set_u16(failures)
    \/ sst_if_err("st_280", "st_286", failures)
    \/ sst_commit
    \/ vTaskDelay

\* a working store, and get_temperature requests whose response may fail to be sent
NextErr ==
    \/ SamplingTask(StoreSamples, {FALSE}, MaxErrCycles)
    \/ get_temperature_handler({ESP_OK, ESP_FAIL})

SpecErr == Init /\ [][NextErr]_vars

\* a store that may fail any operation; the sampling task is scheduled again and
\* again (it is the only task that blocks for a period, line 575)
NextLive == SamplingTask(LiveSamples, BOOLEAN, MaxLiveCycles)

SpecLive == Init /\ [][NextLive]_vars /\ WF_vars(NextLive)

InitConv == InitWith("convert", THRESHOLD_DEFAULT_VALUE, <<>>)

NextConv ==
    \/ convert_first
    \/ convert_second

\* the converter applied to pairs of raw samples of the 12-bit range
SpecConv == InitConv /\ [][NextConv]_vars

InitHyst ==
    \E thr \in HystThresholds, readings \in [1..HystLen -> HystReadings] :
       InitWith("hyst", thr, readings)

SpecHyst == InitHyst /\ [][hyst_cycle]_vars

(******************************* claims ************************************)

Last(seq) == seq[Len(seq)]

\* the records a query returned, without the empty rows
Returned(body) == {body[i] : i \in {j \in 1..HistoryRows : body[j] # EmptyStr}}

\* C1: when set_threshold completes while the controller is Alarmed, armed is
\* false and the output is low, and the next sampling cycle decides from Normal:
\* it ends Alarmed exactly when the reading is at or above the new threshold.
C1_SetWhileAlarmedForcesNormal ==
    /\ (ev.op = "set_threshold" /\ ev.was /\ ev.was_led = 1)
          => (threshold_overcome = FALSE /\ led = 0)
    /\ (ev.op = "handle_threshold" /\ since_set = "evaluated")
          => /\ threshold_overcome <=> (temperature >= threshold)
             /\ led = BoolCount(threshold_overcome)

\* C3: from an empty store and without store errors, fifteen appends followed by
\* the last-10 query return exactly R15, R14, ..., R6, newest in slot 0.
C3_RoundTrip15 ==
    (ev.op = "last10" /\ Len(appended) = 15 /\ faults = 0 /\ lost = 0)
       => resp.body = [i \in 1..HistoryRows |-> appended[16 - i]]

\* C4: after k appends to an empty store without store errors the last-10 query
\* returns exactly min(k, 10) readings, the most recent ones, most recent first.
C4_ReturnsMinK10 ==
    (ev.op = "last10" /\ faults = 0 /\ lost = 0)
       => LET k == Len(appended)
              n == IF k < HistoryRows THEN k ELSE HistoryRows
          IN  /\ \A i \in 1..n : resp.body[i] = appended[k + 1 - i]
              /\ \A i \in (n + 1)..HistoryRows : resp.body[i] = EmptyStr

\* C5: after every completed append the persisted counter equals the number of
\* readings appended so far.
C5_CounterIsNumberAppended ==
    ev.op = "store_temperature" => nvs.count = Len(appended)

\* C6: when the record write reports Full, the append erases the store, restarts
\* the counter and retries, so that on return (erase and counter write having
\* succeeded) the reading being appended is in the store.
C6_FullRetriesAppend ==
    (/\ ev.op = "store_temperature"
     /\ ev.e_str = ESP_ERR_NVS_NOT_ENOUGH_SPACE
     /\ ev.erased
     /\ ev.e_u16 = ESP_OK)
       => /\ nvs.count = 0
          /\ \E k \in DOMAIN nvs.str : nvs.str[k] = Last(appended)

\* C7: when fifteen appends succeeded and the sixteenth hit Full, the counter is
\* 0 or 1 after recovery and a last-10 query issued right after it returns no
\* reading appended before the erase.
C7_NoPreRecoveryReadings ==
    (ev.op = "last10" /\ ev.after_full /\ Len(appended) = 16 /\ lost = 15)
       => /\ nvs.count \in {0, 1}
          /\ \A j \in 1..lost : appended[j] \notin Returned(resp.body)

\* C8: in a last-N query that looks its keys up, every row of the result is a gap
\* or the record now stored under the key derived for that row.
C8_RowIsGapOrStoredRecord ==
    (ev.op = "last10" /\ ev.looped)
       => \A i \in 1..HistoryRows :
             \/ resp.body[i] = EmptyStr
             \/ LET key == TemperatureKey(ev.count - (i - 1))
                IN  key \in DOMAIN nvs.str /\ resp.body[i] = nvs.str[key]

\* C9: when store_temperature returns, either the new record and the counter it
\* was filed under are both in the store, or the store is what it was before.
C9_AppendIsAtomic ==
    ev.op = "store_temperature"
       => \/ /\ ev.key \in DOMAIN nvs.str
             /\ nvs.str[ev.key] = Last(appended)
             /\ nvs.count = ev.count
          \/ nvs = pre_nvs


\* the readings of the hysteresis example: 24.9, 25.1, 24.95, 23.9, 24.95
ExampleReadings == <<2490, 2510, 2495, 2390, 2495>>

C2_Case ==
    /\ threshold = 2500
    /\ Len(fn_in) >= 5
    /\ SubSeq(fn_in, 1, 5) = ExampleReadings
    /\ Len(fn_out) >= 5

\* C2 as stated: from Normal with threshold 25.0, the readings 24.9, 25.1, 24.95,
\* 23.9, 24.95 yield the alarm states false, true, true, true, false.
C2_AsStated ==
    C2_Case => SubSeq(fn_out, 1, 5) = <<FALSE, TRUE, TRUE, TRUE, FALSE>>

\* C2 amended: the same readings yield false, true, true, false, false: the alarm
\* stays latched at 24.95 (at least 24.0) and clears at 23.9.
C2_Hysteresis ==
    C2_Case => SubSeq(fn_out, 1, 5) = <<FALSE, TRUE, TRUE, FALSE, FALSE>>

C2_Witness == C2_Case /\ threshold_overcome = FALSE /\ led = 0

\* C10: once set_threshold has returned, the alarm output is low and stays low
\* until a sampling cycle that started after the return evaluates the threshold.
C10_LowAfterSetThreshold == quiet => led = 0

\* C11: whenever the threshold holds the unset value -50.0, also after
\* set_threshold installed it while the controller was Alarmed, a sampling cycle
\* ends with armed false and the output low, and the reading changes neither.
C11_SentinelForcesNormal ==
    (ev.op = "handle_threshold" /\ threshold = THRESHOLD_DEFAULT_VALUE)
       => /\ threshold_overcome = FALSE
          /\ led = 0

\* C12: a get_temperature request served while the sampling loop stores a new
\* temperature returns the value from before that store or the new one, never a
\* mixture of the two.
C12_NoTornTemperature ==
    ev.op = "gth_load_second" => resp.body \in {FormatWords(v) : v \in t_vals}

\* C13: whatever a set_threshold request does meanwhile, the branch one
\* handle_threshold evaluation takes is the controller's transition on the armed
\* flag and one of the values threshold held during the evaluation, never on a
\* mixture of an old and a new threshold.
C13_NoTornThresholdState ==
    pc = "ht_set"
       => m_cond \in {HandleThresholdFn(temperature, thr, threshold_overcome, led).overcome :
                         thr \in ht_seen}

\* C14: after a successful sync every timestamp is the reference wall time t plus
\* the time elapsed since the sync: the k-th record, taken k - 1 sampling periods
\* after init_time returned, is stamped t + (k - 1) * SamplePeriod, however long
\* the device had been up before the sync.
C14_TimestampFromSync ==
    (ev.op = "store_temperature" /\ t >= NtpAtBoot)
       => \A k \in 1..Len(appended) : appended[k][1] = t + (k - 1) * SamplePeriod

\* C15: when init_time gives up without a network time, the reference wall time t
\* is epoch zero and every later timestamp is the time elapsed since then.
C15_UnsyncedBaseIsEpochZero ==
    (ev.op = "init_time" /\ ~ev.synced) => t = 0

\* C16 as stated: for raw samples a <= b of 0..4095 the conversion is defined for
\* both and convert(a) <= convert(b).
C16_AsStated ==
    ev.op = "convert"
       => /\ Radicand(ev.a) >= 0
          /\ Radicand(ev.b) >= 0
          /\ ev.ca <= ev.cb

\* C16 amended: for raw samples a <= b of 0..4095 the conversion is defined for
\* both (the radicand is not negative) and convert(a) >= convert(b): the computed
\* temperature falls as the raw sample rises, strictly for a < b.
C16_ConvertNonIncreasing ==
    ev.op = "convert"
       => /\ Radicand(ev.a) >= 0
          /\ Radicand(ev.b) >= 0
          /\ ev.ca >= ev.cb
          /\ ev.a < ev.b => ev.ca > ev.cb

C16_Witness ==
    /\ ev.op = "convert"
    /\ ev.a = 0
    /\ ev.b = AdcMax
    /\ ev.ca > ev.cb

\* C17: for an enabled threshold T and a reading v, one cycle of the controller
\* sets armed' = (v >= T) or (armed and v >= T - 1.0) and drives the output to
\* armed': Normal becomes Alarmed exactly when v >= T, Alarmed returns to Normal
\* exactly when v < T - 1.0, and while Alarmed the output stays high for every
\* reading with T - 1.0 <= v < T.
C17_ControllerTransition ==
    (ev.op = "handle_threshold" /\ threshold # THRESHOLD_DEFAULT_VALUE)
       => LET v == temperature
              T == threshold
          IN  /\ threshold_overcome <=> (v >= T \/ (ev.was /\ v >= T - 100))
              /\ led = (IF threshold_overcome THEN 1 ELSE 0)
              /\ ~ev.was => (threshold_overcome <=> v >= T)
              /\ ev.was => (~threshold_overcome <=> v < T - 100)
              /\ (ev.was /\ T - 100 <= v /\ v < T) => led = 1

\* the alarm raised by a reading equal to the threshold and then held by a reading
\* equal to the threshold less the band
C17_Witness ==
    /\ ev.op = "handle_threshold"
    /\ threshold = 2490
    /\ SubSeq(fn_in, 1, 2) = <<2490, 2390>>
    /\ fn_out = <<TRUE, TRUE>>
    /\ ev.was
    /\ temperature = 2390
    /\ led = 1

\* the store operations one store_temperature can make: nvs_get_u16, nvs_set_str,
\* nvs_set_u16, nvs_commit and an nvs_erase_all after each of the first three
MaxStoreOps == 7

\* C18: whatever the store returns, a store_temperature call makes a bounded
\* number of store operations and returns, and the sampling loop reaches the start
\* of its next cycle: a failed append never stalls sampling.
C18_AppendNeverStallsSampling ==
    /\ [](st_ops <= MaxStoreOps)
    /\ (pc = "store_temperature") ~> (pc = "vTaskDelay")
    /\ (pc = "vTaskDelay") ~> (pc = "get_temperature")

\* a call in which all three recoveries ran and the erase itself failed
C18_Witness ==
    /\ pc = "vTaskDelay"
    /\ st_ops = MaxStoreOps
    /\ err = ESP_OK
    /\ faults >= 4

\* C19: the sampling loop erases the store during an append exactly when one of
\* that append's own store operations reported an error; what a request handler
\* writes to err meanwhile neither triggers an erase nor suppresses one.
C19_EraseIffOwnError ==
    ev.op = "sst_if_err" => (ev.cleared <=> ev.own # ESP_OK)

\* C20: whenever neither handle_threshold nor the set-threshold handler is in the
\* middle of executing, the LED is high exactly when threshold_overcome is true.
C20_LedIffArmed ==
    (led = 1) <=> threshold_overcome

\* C21: for every counter value the appends reach, the record key is the prefix t
\* followed by the decimal counter, and the key with its terminator fits in the
\* key buffer of strlen(memory_temperature) + 2 bytes.
C21_KeyFitsBuffer ==
    ev.op = "store_temperature"
       => /\ ev.key = memory_temperature \o Dec(ev.count)
          /\ Len(ev.key) + 1 <= KeyBufSize

====
